---- MODULE Spec2Model ----
(***************************************************************************)
(* VlpProblem.to_file (helperClass/VlpProblem.py, benpy/HelperClass.py):   *)
(* the text encoder of a vector linear program, as a state machine.  One   *)
(* step of the machine is one statement group of to_file: the checks made  *)
(* before the file is opened, the open, the header, one step per loop      *)
(* iteration of each body loop, the closing `e`.                            *)
(*                                                                         *)
(* Numbers are integers; -inf and +inf are the two integers NegInf and     *)
(* PosInf that lie below and above every finite value of the model, so     *)
(* the comparisons < and == order them as numpy orders infinities.         *)
(* A write is a record [tok, end]: the tokens of the written text, which   *)
(* the code joins by single blanks, and the characters that end it.        *)
(*                                                                         *)
(* Beside to_file the module holds the in-memory problem object filled by  *)
(* from_arrays, and, as the specification SpecThreads, the two tests in    *)
(* which worker threads call the solver inside one shared lock.            *)
(***************************************************************************)
EXTENDS Integers, Sequences, FiniteSets, TLC

\* ------------------------------------------------------------------ bounds
MaxRows == 2      \* rows of B, length of the row-bound vectors
MaxCols == 2      \* columns of B and P, columns of Y and Z
MaxObj == 2       \* rows of P (objectives)
MaxNnz == 2       \* entries of a generated matrix that are not zero
MaxVal == 2       \* finite values are 0..MaxVal

PosInf == 1000    \* np.inf
NegInf == -PosInf \* -np.inf

FinVals == 0..MaxVal
\* the values of a bound: the two infinities and two finite values
Ext == {NegInf, 0, 1, PosInf}

\* np.isfinite
isfinite(x) == x # PosInf /\ x # NegInf

\* '{}'.format(x) of a number
fmt(x) == IF x = PosInf THEN "inf" ELSE IF x = NegInf THEN "-inf" ELSE ToString(x)

\* '{}'.format(x) of a float (the floats of the model are whole numbers)
fmtFloat(x) == IF isfinite(x) THEN ToString(x) \o ".0" ELSE fmt(x)

\* an array of floats carries the field dtype; the other arguments hold
\* integers
IsFloat(c) == "dtype" \in DOMAIN c

\* '{}'.format of the element x of the argument c
fmtOf(c, x) == IF IsFloat(c) THEN fmtFloat(x) ELSE fmt(x)

Max(x, y) == IF x >= y THEN x ELSE y

\* ------------------------------------------------------------ values
\* A matrix argument: None, or an array with a shape and one value per cell
\* (cells are 0-based, as numpy indexes them).
Cells(r, c) == (0..(r - 1)) \X (0..(c - 1))
NoneMat == [none |-> TRUE, shape |-> <<0, 0>>, data |-> <<>>]
Mat(r, c, f) ==
    [none |-> FALSE, shape |-> <<r, c>>,
     data |-> [x \in Cells(r, c) |-> IF x \in DOMAIN f THEN f[x] ELSE 0]]

\* np.array of floats with r rows and c columns
FloatMat(r, c, f) ==
    [none |-> FALSE, shape |-> <<r, c>>,
     data |-> [x \in Cells(r, c) |-> IF x \in DOMAIN f THEN f[x] ELSE 0],
     dtype |-> "float64"]

\* A scipy sparse matrix as the argument: the cells of S are stored with the
\* values of f, and a stored value may be 0.
SparseMat(r, c, S, f) ==
    [none |-> FALSE, shape |-> <<r, c>>,
     data |-> [x \in Cells(r, c) |-> IF x \in S THEN f[x] ELSE 0],
     stored |-> S]

\* A vector argument: None, or an array of rank 1 (shape (len,)) or rank 2
\* (shape (len, 1)) holding the values v.
NoneVec == [none |-> TRUE, rank |-> 0, v |-> <<>>]
Vec(s) == [none |-> FALSE, rank |-> 1, v |-> s]
ColVec(s) == [none |-> FALSE, rank |-> 2, v |-> s]
\* np.array of floats of rank 1
FloatVec(s) == [none |-> FALSE, rank |-> 1, v |-> s, dtype |-> "float64"]

\* getlen of to_file
getlen(obj) == IF obj.none THEN 0 ELSE Len(obj.v)

\* find keeping every cell of the matrix, zero or not
findEveryCell(M) ==
    [t \in 1..(M.shape[1] * M.shape[2]) |->
        <<(t - 1) \div M.shape[2], (t - 1) % M.shape[2],
          M.data[<<(t - 1) \div M.shape[2], (t - 1) % M.shape[2]>>]>>]

\* lil_matrix(M): the cells the list-of-lists store holds.  A dense array
\* keeps its entries that are not zero; a sparse matrix keeps every cell it
\* stores, a stored zero included.
lil_matrix(M) ==
    IF "stored" \in DOMAIN M THEN M.stored
    ELSE {x \in Cells(M.shape[1], M.shape[2]) : M.data[x] # 0}

\* the triplets <<row, col, value>> of the stored entries of M that are not
\* zero, by rows ("row") or by columns ("column")
findIn(order, M) ==
    LET r == M.shape[1]
        c == M.shape[2]
        byrows == [t \in 1..(r * c) |->
                     <<(t - 1) \div c, (t - 1) % c, M.data[<<(t - 1) \div c, (t - 1) % c>>]>>]
        bycols == [t \in 1..(r * c) |->
                     <<(t - 1) % r, (t - 1) \div r, M.data[<<(t - 1) % r, (t - 1) \div r>>]>>]
    IN  SelectSeq(IF order = "row" THEN byrows ELSE bycols,
                  LAMBDA x : <<x[1], x[2]>> \in lil_matrix(M) /\ x[3] # 0)

\* the order in which the coordinate store of the installed scipy sorts its
\* entries: by rows, or (older releases) by columns
VARIABLE coo_order

\* find(lil_matrix(M)): the triplets <<row, col, value>> of the stored entries
\* that are not zero (find masks the stored values with `data != 0`), in the
\* order of the coordinate store.
find(M) == findIn(coo_order, M)

\* ------------------------------------------------------------ errors
\* an exception: its type, its message (without the formatted arguments) and
\* the line of to_file that raised it, as the traceback reports it
NoErr == [type |-> "", msg |-> "", line |-> 0]
Raise(t, s, n) == [type |-> t, msg |-> s, line |-> n]

\* ------------------------------------------------------------ writes
NL == "\n"
Write(toks, e) == [tok |-> toks, end |-> e]

\* BoundBody with the two weights of the code exchanged (1 read as lower-only,
\* 2 as upper-only)
BoundBodySwapped(d, idx, lo, hi, erridx, base) ==
    IF lo < hi
      THEN LET ch == (IF isfinite(lo) THEN 1 ELSE 0) + 2 * (IF isfinite(hi) THEN 1 ELSE 0)
           IN  CASE ch = 0 -> [err |-> NoErr, w |-> <<Write(<<d, ToString(idx + 1), "f">>, " \n")>>]
                 [] ch = 1 -> [err |-> NoErr, w |-> <<Write(<<d, ToString(idx + 1), "u", fmt(hi)>>, NL)>>]
                 [] ch = 2 -> [err |-> NoErr, w |-> <<Write(<<d, ToString(idx + 1), "l", fmt(lo)>>, NL)>>]
                 [] ch = 3 -> [err |-> NoErr, w |-> <<Write(<<d, ToString(idx + 1), "d", fmt(lo), fmt(hi)>>, NL)>>]
      ELSE IF lo = hi /\ isfinite(lo)
        THEN [err |-> Raise("TypeError", "write() takes exactly one argument", base + 13), w |-> <<>>]
        ELSE IF erridx
          THEN [err |-> Raise("RuntimeError", "Invalid constrsaints", base + 15), w |-> <<>>]
          ELSE [err |-> Raise("UnboundLocalError", "i", base + 16), w |-> <<>>]

\* The body of the row loop and of the column loop for one index: the write
\* it makes, or the exception it raises.  d is the directive letter, idx the
\* 0-based index, lo and hi the two bounds, erridx whether the loop variable
\* named in the error message is bound, base the line of the loop's if.
BoundBody(d, idx, lo, hi, erridx, base) ==
    IF lo < hi
      THEN LET ch == 2 * (IF isfinite(lo) THEN 1 ELSE 0) + (IF isfinite(hi) THEN 1 ELSE 0)
           IN  CASE ch = 0 -> [err |-> NoErr, w |-> <<Write(<<d, ToString(idx + 1), "f">>, " \n")>>]
                 [] ch = 1 -> [err |-> NoErr, w |-> <<Write(<<d, ToString(idx + 1), "u", fmt(hi)>>, NL)>>]
                 [] ch = 2 -> [err |-> NoErr, w |-> <<Write(<<d, ToString(idx + 1), "l", fmt(lo)>>, NL)>>]
                 [] ch = 3 -> [err |-> NoErr, w |-> <<Write(<<d, ToString(idx + 1), "d", fmt(lo), fmt(hi)>>, NL)>>]
      ELSE IF lo = hi /\ isfinite(lo)
        \* file.write('i %d s %g\n', i, aa[i]): write() takes one argument
        THEN [err |-> Raise("TypeError", "write() takes exactly one argument", base + 13), w |-> <<>>]
        ELSE IF erridx
          THEN [err |-> Raise("RuntimeError", "Invalid constrsaints", base + 15), w |-> <<>>]
          \* the message names the row loop's variable, which no loop has bound:
          \* it is loaded on the continuation line of the raise statement
          ELSE [err |-> Raise("UnboundLocalError", "i", base + 16), w |-> <<>>]

\* ------------------------------------------------------------ inputs
NoneDir == [none |-> TRUE, v |-> 0]
Dir(x) == [none |-> FALSE, v |-> x]
NoneStr == [none |-> TRUE, s |-> ""]
Str(x) == [none |-> FALSE, s |-> x]

\* the matrices with r rows and c columns whose entries that are not zero are
\* at most z, in every position; the values 1..MaxVal rotate over the cells,
\* starting from v
MatsOfShape(r, c, z) ==
    {Mat(r, c, [x \in S |-> 1 + ((x[1] + x[2] + v) % MaxVal)]) :
        S \in {T \in SUBSET Cells(r, c) : Cardinality(T) <= z}, v \in 1..MaxVal}
Mats(R, C, z) == UNION {MatsOfShape(r, c, z) : r \in R, c \in C}
Const(r, c, x) == Mat(r, c, [y \in Cells(r, c) |-> x])
\* the matrix of integers with 1 on the diagonal and 0 elsewhere, as
\* matrix([[1, 0], [0, 1]]) of the examples for r = c = 2
Identity(r, c) == Mat(r, c, [y \in {z \in Cells(r, c) : z[1] = z[2]} |-> 1])
Seqs(L, V) == UNION {[1..len -> V] : len \in L}
Vecs(L, V) == {Vec(x) : x \in Seqs(L, V)}
ColVecs(L, V) == {ColVec(x) : x \in Seqs(L, V)}

VlpProblem(B, a, b, l, s, P, Y, Z, c, opt_dir) ==
    [B |-> B, a |-> a, b |-> b, l |-> l, s |-> s, P |-> P, Y |-> Y, Z |-> Z,
     c |-> c, opt_dir |-> opt_dir]

\* the locals of to_file before its first statement (i = -1: not yet bound)
NoLocals ==
    [m |-> 0, n |-> 0, q |-> 0, p |-> 0, A |-> <<>>, Pt |-> <<>>, K |-> <<>>,
     k |-> 0, k1 |-> 0, k2 |-> 0, kstr |-> <<>>, opt_dir_str |-> "",
     i |-> -1, it |-> 0, m1 |-> 0, aa |-> <<>>, bb |-> <<>>, llb |-> <<>>, uub |-> <<>>]

OldText == <<Write(<<"old">>, NL)>>

\* the in-memory problem object before from_arrays has filled it
NoProb ==
    [filled |-> FALSE, m |-> 0, n |-> 0, q |-> 0, nz |-> 0, nzobj |-> 0, optdir |-> 0,
     A |-> <<>>, Pt |-> <<>>, K |-> <<>>,
     rowlo |-> <<>>, rowhi |-> <<>>, collo |-> <<>>, colhi |-> <<>>, calls |-> 0]

VARIABLES
    vlp,        \* the VlpProblem object (self)
    filename,   \* the argument of to_file
    fs,         \* the file named by filename: whether it exists, and its text
    fopen,      \* whether to_file holds the file open
    pc,         \* the statement to_file executes next; "done": returned; "failed": raised
    err,        \* the exception to_file raised
    loc,        \* the local variables of to_file
    prob,       \* the in-memory problem object (_cVlpProblem)
    merr,       \* the exception from_arrays raised
    test,       \* the threading test that runs ("" when none does)
    threads,    \* the statement each worker thread executes next
    lock,       \* the thread that holds the shared lock, 0 when it is free
    inflight,   \* the solver invocations entered and not yet returned
    solver,     \* how each thread's solver call ends: "returns" or "raises"
    results,    \* the recorded solutions, by the thread that recorded them
    main        \* the statement of the main thread and its loop index

mem == <<prob, merr>>
thr == <<test, threads, lock, inflight, solver, results, main>>
enc == <<vlp, filename, fs, fopen, pc, err, loc, prob, merr>>
vars == <<vlp, filename, fs, fopen, pc, err, loc, prob, merr,
          test, threads, lock, inflight, solver, results, main, coo_order>>

\* ------------------------------------------------------------ initial states
\* The caller's object and argument.  Each family varies the fields one part
\* of to_file reads and fixes the others.
InitCall ==
    /\ filename \in {NoneStr, Str("problem.vlp")}
    /\ fs \in {[exists |-> FALSE, text |-> <<>>], [exists |-> TRUE, text |-> OldText]}
    /\ \E B \in {NoneMat, Const(1, 1, 1)}, P \in {NoneMat, Const(1, 1, 1), Const(1, 2, 1)},
          d \in {NoneDir, Dir(1), Dir(-1), Dir(0), Dir(2)} :
          vlp = VlpProblem(B, NoneVec, NoneVec, NoneVec, NoneVec, P, NoneMat, NoneMat, NoneVec, d)

InitMatrices ==
    /\ filename = Str("problem.vlp")
    /\ fs = [exists |-> TRUE, text |-> OldText]
    /\ \/ \E B \in Mats(1..MaxRows, 1..MaxCols, MaxNnz) :
          \E P \in {Identity(1, B.shape[2]), Identity(MaxObj, B.shape[2]), Identity(1, B.shape[2] + 1)} :
             vlp = VlpProblem(B, NoneVec, NoneVec, NoneVec, NoneVec, P, NoneMat, NoneMat,
                              NoneVec, Dir(1))
       \/ \E P \in Mats(1..MaxObj, 1..MaxCols, MaxNnz) :
          \E B \in {Identity(1, P.shape[2]), Identity(MaxRows, P.shape[2])} :
             vlp = VlpProblem(B, NoneVec, NoneVec, NoneVec, NoneVec, P, NoneMat, NoneMat,
                              NoneVec, Dir(-1))

InitRows ==
    /\ filename = Str("problem.vlp")
    /\ fs = [exists |-> TRUE, text |-> OldText]
    /\ \E a \in {NoneVec} \cup Vecs(0..MaxRows, Ext) \cup ColVecs({1}, {0}),
          b \in {NoneVec} \cup Vecs(0..MaxRows, Ext) \cup ColVecs({1}, {1}) :
          vlp = VlpProblem(Identity(MaxRows, 1), a, b, NoneVec, NoneVec, Const(1, 1, 1),
                           NoneMat, NoneMat, NoneVec, Dir(1))

\* bound vectors of the length n of the columns or one entry short, and a few
\* that are one entry too long; B and P without any entry (x = 0) for n = 1
InitCols ==
    /\ filename = Str("problem.vlp")
    /\ fs = [exists |-> TRUE, text |-> OldText]
    /\ \E n \in 1..MaxCols, x \in {0, 1} :
          /\ x = 0 => n = 1
          /\ \E l \in {NoneVec} \cup Vecs({n - 1, n}, Ext) \cup ColVecs({1}, {0})
                       \cup Vecs({n + 1}, {0}),
                s \in {NoneVec} \cup Vecs({n - 1, n}, Ext) \cup ColVecs({1}, {1})
                       \cup Vecs({n + 1}, {1}) :
                vlp = VlpProblem(IF x = 0 THEN Const(1, n, 0) ELSE Identity(1, n),
                                 NoneVec, NoneVec, l, s,
                                 IF x = 0 THEN Const(1, n, 0) ELSE Identity(1, n),
                                 NoneMat, NoneMat, NoneVec, Dir(1))

Generators == {NoneMat} \cup Mats(1..MaxObj, 0..MaxCols, MaxNnz)
FewGenerators == {NoneMat, Const(MaxObj, 0, 1), Const(MaxObj, 1, 1)}

InitCone ==
    /\ filename = Str("problem.vlp")
    /\ fs = [exists |-> TRUE, text |-> OldText]
    /\ \/ \E Y \in Generators, Z \in FewGenerators :
             vlp = VlpProblem(Const(1, 1, 1), NoneVec, NoneVec, NoneVec, NoneVec,
                              Identity(MaxObj, 1), Y, Z, NoneVec, Dir(1))
       \/ \E Y \in FewGenerators, Z \in Generators :
             vlp = VlpProblem(Const(1, 1, 1), NoneVec, NoneVec, NoneVec, NoneVec,
                              Identity(MaxObj, 1), Y, Z, NoneVec, Dir(1))

InitDuality ==
    /\ filename = Str("problem.vlp")
    /\ fs = [exists |-> TRUE, text |-> OldText]
    /\ \E q \in 1..MaxObj,
          c \in {NoneVec} \cup Vecs(0..(MaxObj + 1), FinVals) \cup ColVecs(1..MaxObj, FinVals) :
          vlp = VlpProblem(Const(1, 1, 1), NoneVec, NoneVec, NoneVec, NoneVec, Identity(q, 1),
                           NoneMat, NoneMat, c, Dir(-1))

\* a model that supplies every field: a generator (Y or Z), c, both row-bound
\* vectors and a column-bound vector
InitFull ==
    /\ filename = Str("problem.vlp")
    /\ fs = [exists |-> TRUE, text |-> OldText]
    /\ \E YZ \in {<<Identity(MaxObj, 2), NoneMat>>, <<NoneMat, Identity(MaxObj, 1)>>},
          d \in {NoneDir, Dir(1), Dir(-1)} :
          vlp = VlpProblem(Identity(2, 2), Vec(<<0, NegInf>>), Vec(<<1, 1>>), Vec(<<0, 0>>),
                           NoneVec, Identity(MaxObj, 2), YZ[1], YZ[2],
                           Vec([t \in 1..MaxObj |-> 1]), d)

\* the arrays of example_basic (example_memory_interface.py), all of floats:
\* B = [[2.0,1.0],[1.0,2.0]], P the identity, b = [4.0,4.0], l = [0.0,0.0],
\* minimise.  The example hands them to the in-memory solve.
ScenarioA ==
    VlpProblem(FloatMat(2, 2, (<<0, 0>> :> 2) @@ (<<0, 1>> :> 1) @@ (<<1, 0>> :> 1)
                               @@ (<<1, 1>> :> 2)),
               NoneVec, FloatVec(<<4, 4>>), FloatVec(<<0, 0>>), NoneVec,
               FloatMat(2, 2, (<<0, 0>> :> 1) @@ (<<1, 1>> :> 1)),
               NoneMat, NoneMat, NoneVec, Dir(1))

\* Example 02 (bensolve_examples.py): B = [[3,1],[1,2],[1,1]], P the identity,
\* b = [1,1,2], a = [0,0,1], no direction given
ScenarioB ==
    VlpProblem(Mat(3, 2, (<<0, 0>> :> 3) @@ (<<0, 1>> :> 1) @@ (<<1, 0>> :> 1) @@ (<<1, 1>> :> 2)
                          @@ (<<2, 0>> :> 1) @@ (<<2, 1>> :> 1)),
               Vec(<<0, 0, 1>>), Vec(<<1, 1, 2>>), NoneVec, NoneVec, Identity(2, 2),
               NoneMat, NoneMat, NoneVec, NoneDir)

InitScenarios ==
    /\ filename = Str("problem.vlp")
    /\ fs \in {[exists |-> FALSE, text |-> <<>>], [exists |-> TRUE, text |-> OldText]}
    /\ vlp \in {ScenarioA, ScenarioB}

\* models that break two rules at once: a c of the wrong length with a
\* direction that is neither 1 nor -1; an invalid row pair with a column-bound
\* vector that is too short; a missing B with an invalid direction
InitSeveral ==
    /\ filename = Str("problem.vlp")
    /\ fs = [exists |-> TRUE, text |-> OldText]
    /\ vlp \in {VlpProblem(Const(1, 1, 1), NoneVec, NoneVec, NoneVec, NoneVec, Identity(MaxObj, 1),
                            NoneMat, NoneMat, Vec(<<1>>), Dir(0)),
                 VlpProblem(Const(1, 1, 1), Vec(<<1>>), Vec(<<0>>), Vec(<<>>), NoneVec,
                            Const(1, 1, 1), NoneMat, NoneMat, NoneVec, Dir(1)),
                 VlpProblem(NoneMat, NoneVec, NoneVec, NoneVec, NoneVec, Const(1, 1, 1),
                            NoneMat, NoneMat, NoneVec, Dir(0))}

\* models that supply more than B and P have room for: a generator (Y or Z)
\* with one row more than P has objectives, row-bound vectors with one entry
\* more than B has rows
InitOversize ==
    /\ filename = Str("problem.vlp")
    /\ fs = [exists |-> TRUE, text |-> OldText]
    /\ vlp \in {VlpProblem(Const(1, 1, 1), NoneVec, NoneVec, NoneVec, NoneVec, Const(1, 1, 1),
                            Const(2, 1, 1), NoneMat, NoneVec, Dir(1)),
                 VlpProblem(Const(1, 1, 1), NoneVec, NoneVec, NoneVec, NoneVec, Const(1, 1, 1),
                            NoneMat, Const(2, 1, 1), NoneVec, Dir(1)),
                 VlpProblem(Const(1, 1, 1), Vec(<<0, 0>>), Vec(<<1, 1>>), NoneVec, NoneVec,
                            Const(1, 1, 1), NoneMat, NoneMat, NoneVec, Dir(1))}

\* models with a sparse matrix of one row that stores both of its cells, the
\* second as a zero or not: B, P (with Y absent) or the generator Y
InitSparse ==
    /\ filename = Str("problem.vlp")
    /\ fs = [exists |-> TRUE, text |-> OldText]
    /\ \E x \in {0, 1}, k \in {"B", "P", "Y"} :
          LET S == SparseMat(1, 2, Cells(1, 2), (<<0, 0>> :> 1 @@ <<0, 1>> :> x))
          IN  vlp = VlpProblem(IF k = "B" THEN S ELSE Identity(1, 2), NoneVec, NoneVec,
                               NoneVec, NoneVec,
                               IF k = "P" THEN S ELSE Identity(1, 2),
                               IF k = "Y" THEN S ELSE NoneMat, NoneMat, NoneVec, Dir(1))

\* no threading test runs
NoThreads ==
    /\ test = ""
    /\ threads = <<>>
    /\ lock = 0
    /\ inflight = {}
    /\ solver = <<>>
    /\ results = <<>>
    /\ main = [pc |-> "idle", i |-> 0]

\* the two orders of the coordinate store give different triplet sequences
\* for a matrix of v; where they do not, the builds do not differ and the
\* row order stands for both
OrderMatters(v) ==
    \E M \in {v.B, v.P, v.Y, v.Z} : ~M.none /\ findIn("row", M) # findIn("column", M)

Init ==
    /\ \/ InitCall
       \/ InitMatrices
       \/ InitRows
       \/ InitCols
       \/ InitCone
       \/ InitDuality
       \/ InitFull
       \/ InitScenarios
       \/ InitSeveral
       \/ InitOversize
       \/ InitSparse
    /\ fopen = FALSE
    /\ pc = "start"
    /\ err = NoErr
    /\ loc = NoLocals
    /\ prob = NoProb
    /\ merr = NoErr
    /\ NoThreads
    /\ coo_order \in {"row"} \cup (IF OrderMatters(vlp) THEN {"column"} ELSE {})

\* ------------------------------------------------------------ to_file
Fail(e) ==
    /\ pc' = "failed"
    /\ err' = e

Emit(w) == fs' = [fs EXCEPT !.text = @ \o w]

\* lines 31-32
NoFilename ==
    /\ pc = "start"
    /\ filename.none
    /\ Fail(Raise("RuntimeError", "No filename given", 32))
    /\ UNCHANGED <<vlp, filename, fs, fopen, loc, mem>>

\* Defaults leaving an unset direction unset
DefaultsKeepNone ==
    /\ pc = "start"
    /\ ~filename.none
    /\ pc' = "checkB"
    /\ UNCHANGED <<vlp, filename, fs, fopen, err, loc, mem>>

\* lines 31-38: the object always has the attributes l and s, so the two
\* hasattr fallbacks assign nothing; a direction of None becomes 1
Defaults ==
    /\ pc = "start"
    /\ ~filename.none
    /\ vlp' = IF vlp.opt_dir.none THEN [vlp EXCEPT !.opt_dir = Dir(1)] ELSE vlp
    /\ pc' = "checkB"
    /\ UNCHANGED <<filename, fs, fopen, err, loc, mem>>

\* MissingMatrix with the two checks in the other order
MissingMatrixPFirst(B, P) == IF P.none THEN "P" ELSE IF B.none THEN "B" ELSE ""

\* lines 39-42: the matrix reported missing ("" when both are given)
MissingMatrix(B, P) == IF B.none THEN "B" ELSE IF P.none THEN "P" ELSE ""

\* SameColumns comparing n with q, the rows of P
SameColumnsRows(B, P) == B.shape[2] = P.shape[1]

\* lines 47-49: n == p
SameColumns(B, P) == B.shape[2] = P.shape[2]

\* lines 39-40
MissingB ==
    /\ pc = "checkB"
    /\ MissingMatrix(vlp.B, vlp.P) = "B"
    /\ Fail(Raise("RuntimeError", "Coefficient Matrix B must be given", 40))
    /\ UNCHANGED <<vlp, filename, fs, fopen, loc, mem>>

\* lines 41-42
MissingP ==
    /\ pc = "checkB"
    /\ MissingMatrix(vlp.B, vlp.P) = "P"
    /\ Fail(Raise("RuntimeError", "Coefficient Matrix P must be given", 42))
    /\ UNCHANGED <<vlp, filename, fs, fopen, loc, mem>>

\* lines 47-50
ColumnMismatch ==
    /\ pc = "checkB"
    /\ MissingMatrix(vlp.B, vlp.P) = ""
    /\ ~SameColumns(vlp.B, vlp.P)
    /\ Fail(Raise("RuntimeError", "B and P must have same number of columns", 50))
    /\ loc' = [loc EXCEPT !.m = vlp.B.shape[1], !.n = vlp.B.shape[2],
                           !.q = vlp.P.shape[1], !.p = vlp.P.shape[2]]
    /\ UNCHANGED <<vlp, filename, fs, fopen, mem>>

\* ConeClause without the tests that the generator has columns
ConeClauseNoColumnTest(Y, Z) ==
    IF ~Y.none
      THEN [K |-> find(Y), kstr |-> <<"cone", ToString(Y.shape[2]), ToString(Len(find(Y)))>>]
      ELSE IF ~Z.none
        THEN [K |-> find(Z), kstr |-> <<"dualcone", ToString(Z.shape[2]), ToString(Len(find(Z)))>>]
        ELSE [K |-> <<>>, kstr |-> <<>>]

\* lines 56-66: the cone clause of the header and the triplets of the generator
ConeClause(Y, Z) ==
    IF ~Y.none /\ Y.shape[2] > 0
      THEN [K |-> find(Y), kstr |-> <<"cone", ToString(Y.shape[2]), ToString(Len(find(Y)))>>]
      ELSE IF ~Z.none /\ Z.shape[2] > 0
        THEN [K |-> find(Z), kstr |-> <<"dualcone", ToString(Z.shape[2]), ToString(Len(find(Z)))>>]
        ELSE [K |-> <<>>, kstr |-> <<>>]

\* lines 47-66
Extract ==
    /\ pc = "checkB"
    /\ MissingMatrix(vlp.B, vlp.P) = ""
    /\ SameColumns(vlp.B, vlp.P)
    /\ LET cone == ConeClause(vlp.Y, vlp.Z)
       IN  loc' = [loc EXCEPT !.m = vlp.B.shape[1], !.n = vlp.B.shape[2],
                              !.q = vlp.P.shape[1], !.p = vlp.P.shape[2],
                              !.A = find(vlp.B), !.k = Len(find(vlp.B)),
                              !.Pt = find(vlp.P), !.k1 = Len(find(vlp.P)),
                              !.K = cone.K, !.k2 = Len(cone.K), !.kstr = cone.kstr]
    /\ pc' = "direction"
    /\ UNCHANGED <<vlp, filename, fs, fopen, err, mem>>

\* OptDirStr taking every direction other than 1 for a maximisation
OptDirStrLax(d) == IF d = 1 THEN "min" ELSE "max"

\* lines 68-72: the direction token; "" when the else branch is taken
OptDirStr(d) == IF d = 1 THEN "min" ELSE IF d = -1 THEN "max" ELSE ""

Direction ==
    /\ pc = "direction"
    /\ OptDirStr(vlp.opt_dir.v) # ""
    /\ loc' = [loc EXCEPT !.opt_dir_str = OptDirStr(vlp.opt_dir.v)]
    /\ pc' = "open"
    /\ UNCHANGED <<vlp, filename, fs, fopen, err, mem>>

\* InvalidDirection raising only after the file has been opened for writing
InvalidDirectionAfterOpen ==
    /\ pc = "direction"
    /\ OptDirStr(vlp.opt_dir.v) = ""
    /\ Fail(Raise("RuntimeError", "Invalid value for opt_dir", 74))
    /\ fs' = [exists |-> TRUE, text |-> <<>>]
    /\ UNCHANGED <<vlp, filename, fopen, loc, mem>>

\* lines 73-75
InvalidDirection ==
    /\ pc = "direction"
    /\ OptDirStr(vlp.opt_dir.v) = ""
    /\ Fail(Raise("RuntimeError", "Invalid value for opt_dir", 74))
    /\ UNCHANGED <<vlp, filename, fs, fopen, loc, mem>>

\* lines 77-78: open(filename, 'w') creates the file or empties it
Open ==
    /\ pc = "open"
    /\ fs' = [exists |-> TRUE, text |-> <<>>]
    /\ fopen' = TRUE
    /\ pc' = "header"
    /\ UNCHANGED <<vlp, filename, err, loc, mem>>

\* lines 79-81: the operating system refuses the open
OpenFails ==
    /\ pc = "open"
    /\ Fail(Raise("OSError", "open", 78))
    /\ UNCHANGED <<vlp, filename, fs, fopen, loc, mem>>

\* HeaderLine with k and q exchanged
HeaderLineSwapped(l) ==
    Write(<<"p", "vlp", l.opt_dir_str, ToString(l.m), ToString(l.n), ToString(l.q),
            ToString(l.k), ToString(l.k1)>> \o l.kstr, NL)

\* lines 83-84
HeaderLine(l) ==
    Write(<<"p", "vlp", l.opt_dir_str, ToString(l.m), ToString(l.n), ToString(l.k),
            ToString(l.q), ToString(l.k1)>> \o l.kstr, NL)

Header ==
    /\ pc = "header"
    /\ Emit(<<HeaderLine(loc)>>)
    /\ pc' = "a"
    /\ loc' = [loc EXCEPT !.it = 0]
    /\ UNCHANGED <<vlp, filename, fopen, err, mem>>

\* TripletLine with the column index left 0-based
TripletLineUnshifted(d, t) == Write(<<d, ToString(t[1] + 1), ToString(t[2]), fmt(t[3])>>, NL)

\* lines 86-87, 89-90, 92-93: the line of one triplet
TripletLine(d, t) == Write(<<d, ToString(t[1] + 1), ToString(t[2] + 1), fmt(t[3])>>, NL)

\* the line w with its value token, the token k, printed as the element x of
\* the argument c
Valued(c, w, k, x) == [w EXCEPT !.tok = [@ EXCEPT ![k] = fmtOf(c, x)]]

\* lines 56-62: the generator the triplets of K are taken from
GeneratorInUse == IF ~vlp.Y.none /\ vlp.Y.shape[2] > 0 THEN vlp.Y ELSE vlp.Z

\* lines 85-87
ALoop ==
    /\ pc = "a"
    /\ IF loc.it < loc.k
         THEN /\ Emit(<<Valued(vlp.B, TripletLine("a", loc.A[loc.it + 1]), 4, loc.A[loc.it + 1][3])>>)
              /\ loc' = [loc EXCEPT !.i = loc.it, !.it = loc.it + 1]
              /\ pc' = "a"
         ELSE /\ loc' = [loc EXCEPT !.it = 0]
              /\ pc' = "o"
              /\ UNCHANGED fs
    /\ UNCHANGED <<vlp, filename, fopen, err, mem>>

\* lines 88-90
OLoop ==
    /\ pc = "o"
    /\ IF loc.it < loc.k1
         THEN /\ Emit(<<Valued(vlp.P, TripletLine("o", loc.Pt[loc.it + 1]), 4, loc.Pt[loc.it + 1][3])>>)
              /\ loc' = [loc EXCEPT !.i = loc.it, !.it = loc.it + 1]
              /\ pc' = "o"
         ELSE /\ loc' = [loc EXCEPT !.it = 0]
              /\ pc' = "k"
              /\ UNCHANGED fs
    /\ UNCHANGED <<vlp, filename, fopen, err, mem>>

\* lines 91-93
KLoop ==
    /\ pc = "k"
    /\ IF loc.it < loc.k2
         THEN /\ Emit(<<Valued(GeneratorInUse, TripletLine("k", loc.K[loc.it + 1]), 4,
                             loc.K[loc.it + 1][3])>>)
              /\ loc' = [loc EXCEPT !.i = loc.it, !.it = loc.it + 1]
              /\ pc' = "k"
         ELSE /\ loc' = [loc EXCEPT !.it = 0]
              /\ pc' = "c"
              /\ UNCHANGED fs
    /\ UNCHANGED <<vlp, filename, fopen, err, mem>>

\* line 96: no duality parameter
NoDuality ==
    /\ pc = "c"
    /\ vlp.c.none
    /\ pc' = "rowdims"
    /\ UNCHANGED <<vlp, filename, fs, fopen, err, loc, mem>>

\* CDimensionOk rejecting only a c that is too short
CDimensionOkLonger(c, q) == ~(c.rank # 1 \/ Len(c.v) < q)

\* line 97: c is a vector of rank 1 and of length q
CDimensionOk(c, q) == ~(c.rank # 1 \/ Len(c.v) # q)

\* lines 97-98
CWrongDimension ==
    /\ pc = "c"
    /\ ~vlp.c.none
    /\ ~CDimensionOk(vlp.c, loc.q)
    /\ Fail(Raise("RuntimeError", "c has wrong dimension", 98))
    /\ UNCHANGED <<vlp, filename, fs, fopen, loc, mem>>

\* line 100
DualityLine(i, x) == Write(<<"k", ToString(i + 1), "0", fmt(x)>>, NL)

\* lines 97-100
CLoop ==
    /\ pc = "c"
    /\ ~vlp.c.none
    /\ CDimensionOk(vlp.c, loc.q)
    /\ IF loc.it < loc.q
         THEN /\ Emit(<<Valued(vlp.c, DualityLine(loc.it, vlp.c.v[loc.it + 1]), 4,
                             vlp.c.v[loc.it + 1])>>)
              /\ loc' = [loc EXCEPT !.i = loc.it, !.it = loc.it + 1]
              /\ pc' = "c"
         ELSE /\ loc' = [loc EXCEPT !.it = 0]
              /\ pc' = "rowdims"
              /\ UNCHANGED fs
    /\ UNCHANGED <<vlp, filename, fopen, err, mem>>

\* lines 103-104
AWrongDimension ==
    /\ pc = "rowdims"
    /\ vlp.a.rank > 1
    /\ Fail(Raise("RuntimeError", "a has wrong dimension", 104))
    /\ UNCHANGED <<vlp, filename, fs, fopen, loc, mem>>

\* lines 105-106
BWrongDimension ==
    /\ pc = "rowdims"
    /\ ~(vlp.a.rank > 1)
    /\ vlp.b.rank > 1
    /\ Fail(Raise("RuntimeError", "b has wrong dimension", 106))
    /\ UNCHANGED <<vlp, filename, fs, fopen, loc, mem>>

\* lines 109, 113, 138, 143: inf * np.ones((len, 1))
Filled(len, x) == [t \in 1..len |-> x]

\* lines 107-115
RowDefaults ==
    /\ pc = "rowdims"
    /\ ~(vlp.a.rank > 1)
    /\ ~(vlp.b.rank > 1)
    /\ LET m1 == Max(getlen(vlp.a), getlen(vlp.b))
       IN  loc' = [loc EXCEPT !.m1 = m1,
                              !.aa = IF vlp.a.none THEN Filled(m1, NegInf) ELSE vlp.a.v,
                              !.bb = IF vlp.b.none THEN Filled(m1, PosInf) ELSE vlp.b.v,
                              !.it = 0]
    /\ pc' = "rows"
    /\ UNCHANGED <<vlp, filename, fs, fopen, err, mem>>

\* lines 118, 148: both bounds of index it can be read
InRange(lo, hi, it) == it < Len(lo) /\ it < Len(hi)

\* RowBody reading no upper bound
RowBodyLowerOnly(l) == BoundBody("i", l.it, l.aa[l.it + 1], PosInf, TRUE, 118)

\* RowBody numbering the rows from the last to the first
RowBodyDescending(l) ==
    BoundBody("i", l.m1 - 1 - l.it, l.aa[l.it + 1], l.bb[l.it + 1], TRUE, 118)

\* '{}'.format of one element of a bound vector: the element of a vector of
\* rank 2 is itself an array and prints in brackets (a float in it as `0.`)
fmtElement(c, x) ==
    IF c.rank = 2
      THEN "[" \o (IF IsFloat(c) /\ isfinite(x) THEN ToString(x) \o "." ELSE fmt(x)) \o "]"
      ELSE fmtOf(c, x)

\* the tokens of a row or column line with the two bounds printed as elements
\* of the vectors L and H they are read from
BoundTokens(tok, L, H, lo, hi) ==
    CASE tok[3] = "u" -> [tok EXCEPT ![4] = fmtElement(H, hi)]
      [] tok[3] = "l" -> [tok EXCEPT ![4] = fmtElement(L, lo)]
      [] tok[3] = "d" -> [tok EXCEPT ![4] = fmtElement(L, lo), ![5] = fmtElement(H, hi)]
      [] OTHER -> tok

\* the tokens of a row line with aa[i] and bb[i] printed as elements of the
\* vectors a and b
RowTokens(tok, lo, hi) == BoundTokens(tok, vlp.a, vlp.b, lo, hi)

\* lines 117-127, 130-134: the row of index it, when both bounds can be read
RowBody(l) == BoundBody("i", l.it, l.aa[l.it + 1], l.bb[l.it + 1], TRUE, 118)

\* lines 117-127: one row line
RowLine ==
    /\ pc = "rows"
    /\ loc.it < loc.m1
    /\ InRange(loc.aa, loc.bb, loc.it)
    /\ RowBody(loc).err = NoErr
    /\ Emit(<<Write(RowTokens(RowBody(loc).w[1].tok, loc.aa[loc.it + 1], loc.bb[loc.it + 1]),
                     RowBody(loc).w[1].end)>>)
    /\ loc' = [loc EXCEPT !.i = loc.it, !.it = loc.it + 1]
    /\ pc' = "rows"
    /\ UNCHANGED <<vlp, filename, fopen, err, mem>>

\* lines 118, 130-134: the row raises (an index past the end of a or b, the
\* fixed branch, an invalid pair)
RowRaises ==
    /\ pc = "rows"
    /\ loc.it < loc.m1
    /\ IF InRange(loc.aa, loc.bb, loc.it)
         THEN /\ RowBody(loc).err # NoErr
              /\ Fail(RowBody(loc).err)
         ELSE Fail(Raise("IndexError", "index out of range", 118))
    /\ loc' = [loc EXCEPT !.i = loc.it]
    /\ UNCHANGED <<vlp, filename, fs, fopen, mem>>

\* lines 137-145
ColDefaults ==
    /\ pc = "rows"
    /\ ~(loc.it < loc.m1)
    /\ loc' = [loc EXCEPT !.llb = IF vlp.l.none THEN Filled(loc.n, NegInf) ELSE vlp.l.v,
                          !.uub = IF vlp.s.none THEN Filled(loc.n, PosInf) ELSE vlp.s.v,
                          !.it = 0]
    /\ pc' = "cols"
    /\ UNCHANGED <<vlp, filename, fs, fopen, err, mem>>

\* the tokens of a column line with llb[j] and uub[j] printed as elements of
\* the vectors l and s
ColTokens(tok, lo, hi) == BoundTokens(tok, vlp.l, vlp.s, lo, hi)

\* lines 147-164: the column of index it, when both bounds can be read; the
\* rank of l and s is not tested
ColBody(l) ==
    LET r == BoundBody("j", l.it, l.llb[l.it + 1], l.uub[l.it + 1], l.i # -1, 148)
    IN  IF r.err # NoErr THEN r
        ELSE [err |-> NoErr,
              w |-> <<Write(ColTokens(r.w[1].tok, l.llb[l.it + 1], l.uub[l.it + 1]),
                            r.w[1].end)>>]

\* lines 147-157: one column line
ColLine ==
    /\ pc = "cols"
    /\ loc.it < loc.n
    /\ InRange(loc.llb, loc.uub, loc.it)
    /\ ColBody(loc).err = NoErr
    /\ Emit(ColBody(loc).w)
    /\ loc' = [loc EXCEPT !.it = loc.it + 1]
    /\ pc' = "cols"
    /\ UNCHANGED <<vlp, filename, fopen, err, mem>>

\* lines 148, 160-164: the column raises
ColRaises ==
    /\ pc = "cols"
    /\ loc.it < loc.n
    /\ IF InRange(loc.llb, loc.uub, loc.it)
         THEN /\ ColBody(loc).err # NoErr
              /\ Fail(ColBody(loc).err)
         ELSE Fail(Raise("IndexError", "index out of range", 148))
    /\ UNCHANGED <<vlp, filename, fs, fopen, loc, mem>>

\* End closing the file without writing the last directive
EndWithoutE ==
    /\ pc = "cols"
    /\ ~(loc.it < loc.n)
    /\ fopen' = FALSE
    /\ pc' = "done"
    /\ UNCHANGED <<vlp, filename, fs, err, loc, mem>>

\* lines 165-166
End ==
    /\ pc = "cols"
    /\ ~(loc.it < loc.n)
    /\ Emit(<<Write(<<"e">>, " ")>>)
    /\ fopen' = FALSE
    /\ pc' = "done"
    /\ UNCHANGED <<vlp, filename, err, loc, mem>>

to_file ==
    \/ NoFilename
    \/ Defaults
    \/ MissingB
    \/ MissingP
    \/ ColumnMismatch
    \/ Extract
    \/ Direction
    \/ InvalidDirection
    \/ Open
    \/ OpenFails
    \/ Header
    \/ ALoop
    \/ OLoop
    \/ KLoop
    \/ NoDuality
    \/ CWrongDimension
    \/ CLoop
    \/ AWrongDimension
    \/ BWrongDimension
    \/ RowDefaults
    \/ RowLine
    \/ RowRaises
    \/ ColDefaults
    \/ ColLine
    \/ ColRaises
    \/ End

\* ------------------------------------------------------------ from_arrays
\* The in-memory entry point, called with the fields of the same model in
\* place of to_file.  It takes B and P by position.
MemoryEncode(v) ==
    [filled |-> TRUE, m |-> v.B.shape[1], n |-> v.B.shape[2], q |-> v.P.shape[1],
     nz |-> Len(find(v.B)), nzobj |-> Len(find(v.P)),
     optdir |-> IF v.opt_dir.none THEN 1 ELSE v.opt_dir.v,
     A |-> find(v.B), Pt |-> find(v.P), K |-> ConeClause(v.Y, v.Z).K,
     rowlo |-> IF v.a.none THEN Filled(v.B.shape[1], NegInf) ELSE v.a.v,
     rowhi |-> IF v.b.none THEN Filled(v.B.shape[1], PosInf) ELSE v.b.v,
     collo |-> IF v.l.none THEN Filled(v.B.shape[2], NegInf) ELSE v.l.v,
     colhi |-> IF v.s.none THEN Filled(v.B.shape[2], PosInf) ELSE v.s.v,
     calls |-> 0]

\* from_arrays on an object that may hold an earlier problem: the earlier
\* allocation is freed and the object is filled from the arguments alone
Refill(old, v) == [MemoryEncode(v) EXCEPT !.calls = old.calls + 1]

\* the properties constraint_matrix and objective_matrix: the dense matrix of
\* r rows and c columns rebuilt from the stored triplets
Dense(r, c, T) ==
    [none |-> FALSE, shape |-> <<r, c>>,
     data |-> [x \in Cells(r, c) |->
                 LET S == {t \in 1..Len(T) : T[t][1] = x[1] /\ T[t][2] = x[2]}
                 IN  IF S = {} THEN 0 ELSE T[CHOOSE t \in S : TRUE][3]]]
constraint_matrix(p) == Dense(p.m, p.n, p.A)
objective_matrix(p) == Dense(p.q, p.n, p.Pt)

\* from_arrays takes B and P by position, as arrays or as sparse matrices
from_arrays ==
    /\ pc = "start"
    /\ ~vlp.B.none
    /\ ~vlp.P.none
    /\ vlp.B.shape[2] = vlp.P.shape[2]
    /\ prob' = Refill(prob, vlp)
    /\ pc' = "mem_done"
    /\ UNCHANGED <<vlp, filename, fs, fopen, err, loc, merr>>

from_arrays_mismatch ==
    /\ pc = "start"
    /\ ~vlp.B.none
    /\ ~vlp.P.none
    /\ vlp.B.shape[2] # vlp.P.shape[2]
    /\ merr' = Raise("ValueError", "dimension mismatch", 0)
    /\ pc' = "mem_failed"
    /\ UNCHANGED <<vlp, filename, fs, fopen, err, loc, prob>>

\* the calls on one problem object
MaxCalls == 3

\* test_reuse_problem_object: the problem of setUp (B of 2 rows) and the
\* second problem (B2 of 3 rows), both with the identity P, upper row bounds,
\* lower column bounds 0 and opt_dir = 1, all as float arrays
ReuseModels ==
    {VlpProblem(FloatMat(2, 2, (<<0, 0>> :> 1) @@ (<<0, 1>> :> 1) @@ (<<1, 0>> :> 1)),
                NoneVec, FloatVec(<<2, 1>>), FloatVec(<<0, 0>>), NoneVec,
                FloatMat(2, 2, (<<0, 0>> :> 1) @@ (<<1, 1>> :> 1)),
                NoneMat, NoneMat, NoneVec, Dir(1)),
     VlpProblem(FloatMat(3, 2, (<<0, 0>> :> 1) @@ (<<1, 1>> :> 1) @@ (<<2, 0>> :> 1)
                                @@ (<<2, 1>> :> 1)),
                NoneVec, FloatVec(<<1, 1, 2>>), FloatVec(<<0, 0>>), NoneVec,
                FloatMat(2, 2, (<<0, 0>> :> 1) @@ (<<1, 1>> :> 1)),
                NoneMat, NoneMat, NoneVec, Dir(1))}

\* a further from_arrays call on the same object, with the arrays of another
\* model
from_arrays_reuse ==
    /\ pc \in {"mem_done", "mem_failed"}
    /\ prob.calls < MaxCalls
    /\ \E v \in ReuseModels :
          /\ vlp' = v
          /\ prob' = Refill(prob, v)
    /\ pc' = "mem_done"
    /\ UNCHANGED <<filename, fs, fopen, err, loc, merr>>

Encode ==
    \/ to_file
    \/ from_arrays
    \/ from_arrays_mismatch
    \/ from_arrays_reuse

Next == Encode /\ UNCHANGED <<thr, coo_order>>

Spec == Init /\ [][Next]_vars

\* ------------------------------------------------------------ threads
\* The two lock tests: test_single_threaded_with_lock (tests_threading.py,
\* "unit") records the solution inside the lock and solves on the in-memory
\* path (solve_direct); test_thread_safety_with_lock (examples/
\* test_threading.py, "example") records it after the lock is released and
\* solves on the text path (bensolve).  The main thread starts the workers
\* one after the other, then joins them one after the other.
MaxThreads == 3

NumThreads == Len(threads)
Path(t) == IF t = "unit" THEN "memory" ELSE "text"

\* The solver is compiled code outside this module: the worker is modelled
\* for both ways its call can end.
InitThreads ==
    /\ test \in {"unit", "example"}
    /\ \E n \in 2..MaxThreads :
          /\ threads = [t \in 1..n |-> "new"]
          /\ solver \in [1..n -> {"returns", "raises"}]
    /\ lock = 0
    /\ inflight = {}
    /\ results = <<>>
    /\ main = [pc |-> "start", i |-> 1]
    /\ vlp = ScenarioA
    /\ filename = Str("problem.vlp")
    /\ fs = [exists |-> FALSE, text |-> <<>>]
    /\ fopen = FALSE
    /\ pc = "start"
    /\ err = NoErr
    /\ loc = NoLocals
    /\ prob = NoProb
    /\ merr = NoErr
    /\ coo_order = "row"

\* t.start()
MainStart ==
    /\ main.pc = "start"
    /\ threads' = [threads EXCEPT ![main.i] = "ready"]
    /\ main' = IF main.i = NumThreads THEN [pc |-> "join", i |-> 1]
                ELSE [pc |-> "start", i |-> main.i + 1]
    /\ UNCHANGED <<test, solver, lock, inflight, results>>

\* t.join(): returns once the thread has ended
MainJoin ==
    /\ main.pc = "join"
    /\ threads[main.i] = "end"
    /\ main' = IF main.i = NumThreads THEN [pc |-> "joined", i |-> 0]
                ELSE [pc |-> "join", i |-> main.i + 1]
    /\ UNCHANGED <<test, solver, threads, lock, inflight, results>>

\* Acquire entering the with block whether or not the lock is free
AcquireNoWait(t) ==
    /\ threads[t] = "ready"
    /\ lock' = t
    /\ threads' = [threads EXCEPT ![t] = "locked"]
    /\ UNCHANGED <<test, solver, inflight, results, main>>

\* with lock: blocks until the lock is free, then takes it
Acquire(t) ==
    /\ threads[t] = "ready"
    /\ lock = 0
    /\ lock' = t
    /\ threads' = [threads EXCEPT ![t] = "locked"]
    /\ UNCHANGED <<test, solver, inflight, results, main>>

\* the call of the solver (solve_direct, bensolve) is entered
SolveEnter(t) ==
    /\ threads[t] = "locked"
    /\ inflight' = inflight \cup {[thread |-> t, path |-> Path(test)]}
    /\ threads' = [threads EXCEPT ![t] = "solving"]
    /\ UNCHANGED <<test, solver, lock, results, main>>

\* the call of the solver returns
SolveReturn(t) ==
    /\ threads[t] = "solving"
    /\ solver[t] = "returns"
    /\ inflight' = inflight \ {[thread |-> t, path |-> Path(test)]}
    /\ threads' = [threads EXCEPT ![t] = "solved"]
    /\ UNCHANGED <<test, solver, lock, results, main>>

\* the call of the solver raises: no value is assigned to sol, and the
\* exception leaves the with block
SolveRaises(t) ==
    /\ threads[t] = "solving"
    /\ solver[t] = "raises"
    /\ inflight' = inflight \ {[thread |-> t, path |-> Path(test)]}
    /\ threads' = [threads EXCEPT ![t] = "raised"]
    /\ UNCHANGED <<test, solver, lock, results, main>>

\* results.append(sol) inside the with block; results[problem_id] = sol after it
Record(t) ==
    /\ threads[t] = (IF test = "unit" THEN "solved" ELSE "released")
    /\ results' = Append(results, t)
    /\ threads' = [threads EXCEPT ![t] = IF test = "unit" THEN "recorded" ELSE "end"]
    /\ UNCHANGED <<test, solver, lock, inflight, main>>

\* the end of the with block, reached by its last statement or left by the
\* exception of the solver call: the lock is released either way; the worker
\* catches nothing, so after an exception the thread ends without recording
Release(t) ==
    /\ threads[t] \in {IF test = "unit" THEN "recorded" ELSE "solved", "raised"}
    /\ lock' = 0
    /\ threads' = [threads EXCEPT ![t] = IF test = "unit" \/ threads[t] = "raised"
                                           THEN "end" ELSE "released"]
    /\ UNCHANGED <<test, solver, inflight, results, main>>

Worker ==
    \E t \in 1..NumThreads :
        \/ Acquire(t)
        \/ SolveEnter(t)
        \/ SolveReturn(t)
        \/ SolveRaises(t)
        \/ Record(t)
        \/ Release(t)

NextThreads == (MainStart \/ MainJoin \/ Worker) /\ UNCHANGED <<enc, coo_order>>

SpecThreads == InitThreads /\ [][NextThreads]_vars

\* The two tests on their own data: a feasible problem, on which every solver
\* call returns a solution (both tests assert it of every recorded result).
InitLockTests ==
    /\ InitThreads
    /\ \A t \in DOMAIN solver : solver[t] = "returns"

SpecLockTests == InitLockTests /\ [][NextThreads]_vars

\* ------------------------------------------------------------ observations
\* What the properties below read off a state: how far to_file has come, the
\* written lines by directive, and the bounds the caller supplied.
InitFiles == {[exists |-> FALSE, text |-> <<>>], [exists |-> TRUE, text |-> OldText]}

PcRank(p) ==
    CASE p = "start" -> 0 [] p = "checkB" -> 1 [] p = "direction" -> 2 [] p = "open" -> 3
      [] p = "header" -> 4 [] p = "a" -> 5 [] p = "o" -> 6 [] p = "k" -> 7 [] p = "c" -> 8
      [] p = "rowdims" -> 9 [] p = "rows" -> 10 [] p = "cols" -> 11 [] p = "done" -> 12
      [] OTHER -> -1
LineRank(n) ==
    CASE n = 32 -> 0 [] n \in {40, 42, 50} -> 1 [] n = 74 -> 2 [] n = 78 -> 3 [] n = 98 -> 8
      [] n \in {104, 106} -> 9 [] n \in {118, 131, 133} -> 10 [] n \in {148, 161, 163, 164} -> 11
      [] OTHER -> -1
\* the statement group to_file is at, or was at when it raised
Progress == IF pc = "failed" THEN LineRank(err.line) ELSE PcRank(pc)

Lines(d) == SelectSeq(fs.text, LAMBDA w : w.tok[1] = d)
ALines == Lines("a")
OLines == Lines("o")
RowLines == Lines("i")
ColLines == Lines("j")
ConeKLines == SelectSeq(fs.text, LAMBDA w : w.tok[1] = "k" /\ w.tok[3] # "0")
CLines == SelectSeq(fs.text, LAMBDA w : w.tok[1] = "k" /\ w.tok[3] = "0")
HeaderWritten == Len(fs.text) >= 1 /\ fs.text[1].tok[1] = "p"
Toks(lines) == [t \in 1..Len(lines) |-> lines[t].tok]
CountTok(lines, tok) == Cardinality({t \in 1..Len(lines) : lines[t].tok = tok})

NonZero(M) == {x \in Cells(M.shape[1], M.shape[2]) : M.data[x] # 0}
ShiftedLine(d, M, x) == <<d, ToString(x[1] + 1), ToString(x[2] + 1), fmtOf(M, M.data[x])>>
\* the lines of directive d are the entries of M that are not zero, one line
\* each, with both indices shifted by one
OneLinePerEntry(d, lines, M) ==
    /\ Len(lines) = Cardinality(NonZero(M))
    /\ \A x \in NonZero(M) : CountTok(lines, ShiftedLine(d, M, x)) = 1
EachLineAnEntry(d, lines, M) ==
    \A t \in 1..Len(lines) : \E x \in NonZero(M) : lines[t].tok = ShiftedLine(d, M, x)

\* the bounds of row t and of column t (1-based), an absent vector being the
\* infinity of its side
HasRowBounds(t) ==
    /\ vlp.a.none \/ t <= Len(vlp.a.v)
    /\ vlp.b.none \/ t <= Len(vlp.b.v)
RowLo(t) == IF vlp.a.none THEN NegInf ELSE vlp.a.v[t]
RowHi(t) == IF vlp.b.none THEN PosInf ELSE vlp.b.v[t]
HasColBounds(t) ==
    /\ vlp.l.none \/ t <= Len(vlp.l.v)
    /\ vlp.s.none \/ t <= Len(vlp.s.v)
ColLo(t) == IF vlp.l.none THEN NegInf ELSE vlp.l.v[t]
ColHi(t) == IF vlp.s.none THEN PosInf ELSE vlp.s.v[t]

\* the number of rows (columns) whose loop body has been entered
RowsReached ==
    IF pc = "rows" THEN loc.it
    ELSE IF pc = "failed" /\ Progress = 10 THEN loc.i + 1
    ELSE IF Progress > 10 THEN loc.m1 ELSE 0
ColsReached ==
    IF pc = "cols" THEN loc.it
    ELSE IF pc = "failed" /\ Progress = 11 THEN loc.it + 1
    ELSE IF pc = "done" THEN loc.n ELSE 0
\* the body of row t (column t) raised in its bound branches
RowRaised(t) == pc = "failed" /\ err.line \in {131, 133} /\ loc.i + 1 = t
ColRaised(t) == pc = "failed" /\ err.line \in {161, 163, 164} /\ loc.it + 1 = t

Code(lo, hi) == 2 * (IF isfinite(lo) THEN 1 ELSE 0) + (IF isfinite(hi) THEN 1 ELSE 0)
LetterLine(d, t, lo, hi) ==
    CASE Code(lo, hi) = 0 -> <<d, ToString(t), "f">>
      [] Code(lo, hi) = 1 -> <<d, ToString(t), "u", fmt(hi)>>
      [] Code(lo, hi) = 2 -> <<d, ToString(t), "l", fmt(lo)>>
      [] Code(lo, hi) = 3 -> <<d, ToString(t), "d", fmt(lo), fmt(hi)>>

\* ------------------------------------------------------------ properties
\* C1: every row and every column the loops reach with lower < upper gets one
\* line whose letter is chosen by code = 2*is_finite(lower) + is_finite(upper):
\* 0 f, 1 u upper, 2 l lower, 3 d lower upper; row lines start `i <row+1>`,
\* column lines `j <col+1>`, with the same mapping (a bound taken from a
\* column-bound vector of rank 2 prints in brackets).
C1_BoundLetterByCode ==
    /\ \A t \in 1..Len(RowLines) :
          /\ HasRowBounds(t)
          /\ RowLo(t) < RowHi(t)
          /\ RowLines[t].tok = RowTokens(LetterLine("i", t, RowLo(t), RowHi(t)),
                                           RowLo(t), RowHi(t))
    /\ \A t \in 1..RowsReached :
          HasRowBounds(t) /\ RowLo(t) < RowHi(t) => t <= Len(RowLines) /\ ~RowRaised(t)
    /\ \A t \in 1..Len(ColLines) :
          /\ HasColBounds(t)
          /\ ColLo(t) < ColHi(t)
          /\ ColLines[t].tok = ColTokens(LetterLine("j", t, ColLo(t), ColHi(t)),
                                           ColLo(t), ColHi(t))
    /\ \A t \in 1..ColsReached :
          HasColBounds(t) /\ ColLo(t) < ColHi(t) => t <= Len(ColLines) /\ ~ColRaised(t)

C1_Witness ==
    /\ pc = "done"
    /\ Len(RowLines) = 2
    /\ RowLines[1].tok = <<"i", "1", "u", "1">>
    /\ RowLines[2].tok = <<"i", "2", "d", "0", "1">>
    /\ Len(ColLines) = 1
    /\ ColLines[1].tok = <<"j", "1", "f">>

\* C2 (as claimed): a row or column whose two bounds are equal and finite gets
\* the line `i <row+1> s <value>`, respectively `j <col+1> s <value>`, and
\* the encoding goes on.
C2_FixedEmitsSLine ==
    /\ \A t \in 1..RowsReached :
          HasRowBounds(t) /\ RowLo(t) = RowHi(t) /\ isfinite(RowLo(t))
             => /\ CountTok(RowLines, <<"i", ToString(t), "s", fmt(RowLo(t))>>) = 1
                /\ ~RowRaised(t)
    /\ \A t \in 1..ColsReached :
          HasColBounds(t) /\ ColLo(t) = ColHi(t) /\ isfinite(ColLo(t))
             => /\ CountTok(ColLines, <<"j", ToString(t), "s", fmt(ColLo(t))>>) = 1
                /\ ~ColRaised(t)

\* C3 (as claimed): classification is total.  A pair with lower <= upper that
\* is not equal-and-infinite never makes its row or column raise; a pair with
\* lower > upper, or equal and infinite, makes to_file fail there with the
\* invalid-bound error.
ValidPair(lo, hi) == lo < hi \/ (lo = hi /\ isfinite(lo))
InvalidBoundError(e) == e.type = "RuntimeError" /\ e.msg = "Invalid constrsaints"
C3_ClassificationTotal ==
    /\ \A t \in 1..RowsReached :
          HasRowBounds(t) =>
             IF ValidPair(RowLo(t), RowHi(t))
               THEN ~RowRaised(t)
               ELSE RowRaised(t) /\ InvalidBoundError(err)
    /\ \A t \in 1..ColsReached :
          HasColBounds(t) =>
             IF ValidPair(ColLo(t), ColHi(t))
               THEN ~ColRaised(t)
               ELSE ColRaised(t) /\ InvalidBoundError(err)

\* C4: every line `a`, `o` and cone `k` is an entry of its matrix (B, P, the
\* generator in use) with row+1, col+1 and the value unchanged, and once a
\* loop is over each entry of its matrix that is not zero has exactly one line.
YCols == ~vlp.Y.none /\ vlp.Y.shape[2] > 0
ZCols == ~vlp.Z.none /\ vlp.Z.shape[2] > 0
Generator == IF YCols THEN vlp.Y ELSE IF ZCols THEN vlp.Z ELSE NoneMat
C4_IndexShift ==
    /\ Len(ALines) > 0 => EachLineAnEntry("a", ALines, vlp.B)
    /\ Len(OLines) > 0 => EachLineAnEntry("o", OLines, vlp.P)
    /\ Len(ConeKLines) > 0 => EachLineAnEntry("k", ConeKLines, Generator)
    /\ Progress > 5 => OneLinePerEntry("a", ALines, vlp.B)
    /\ Progress > 6 => OneLinePerEntry("o", OLines, vlp.P)
    /\ Progress > 7 => OneLinePerEntry("k", ConeKLines, Generator)

C4_Witness ==
    /\ pc = "done"
    /\ Len(ALines) = 2
    /\ ALines[2].tok = <<"a", "2", "2", "1">>
    /\ Len(OLines) = 2

C4_WitnessCone ==
    /\ pc = "done"
    /\ Len(ConeKLines) = 2
    /\ ConeKLines[2].tok = <<"k", "2", "2", "1">>

\* C5: the header is `p vlp <dir> <m> <n> <k> <q> <k1>` and after it at most
\* a cone clause; m and n are the shape of B, q the rows of P, k the number
\* of `a` lines and k1 the number of `o` lines that follow, <dir> is `min`
\* exactly for direction 1 and `max` exactly for direction -1.
C5_Header ==
    HeaderWritten =>
       LET h == fs.text[1].tok
       IN  /\ Len(Lines("p")) = 1
           /\ Len(h) \in {8, 11}
           /\ h[1] = "p" /\ h[2] = "vlp"
           /\ h[3] \in {"min", "max"}
           /\ h[3] = "min" <=> vlp.opt_dir.v = 1
           /\ h[3] = "max" <=> vlp.opt_dir.v = -1
           /\ h[4] = ToString(vlp.B.shape[1])
           /\ h[5] = ToString(vlp.B.shape[2])
           /\ h[7] = ToString(vlp.P.shape[1])
           /\ Progress > 5 => h[6] = ToString(Len(ALines))
           /\ Progress > 6 => h[8] = ToString(Len(OLines))
           /\ Len(h) = 11 => h[9] \in {"cone", "dualcone"}

C5_Witness ==
    /\ pc = "done"
    /\ fs.text[1].tok = <<"p", "vlp", "max", "2", "1", "1", "2", "2">>

\* C6: with columns in Y and none in Z (absent, or zero columns) the header
\* ends ` cone <columns of Y> <k2>` and the k2 cone lines are Y's entries; with
\* columns in Z and none in Y it ends ` dualcone <columns of Z> <k2>` with Z's
\* entries; with columns in neither there is no clause and no cone line.
C6_ConeResolution ==
    HeaderWritten =>
       LET h == fs.text[1].tok
       IN  /\ YCols /\ ~ZCols =>
                /\ SubSeq(h, 9, Len(h)) = <<"cone", ToString(vlp.Y.shape[2]),
                                            ToString(Cardinality(NonZero(vlp.Y)))>>
                /\ Progress > 7 => OneLinePerEntry("k", ConeKLines, vlp.Y)
           /\ ZCols /\ ~YCols =>
                /\ SubSeq(h, 9, Len(h)) = <<"dualcone", ToString(vlp.Z.shape[2]),
                                            ToString(Cardinality(NonZero(vlp.Z)))>>
                /\ Progress > 7 => OneLinePerEntry("k", ConeKLines, vlp.Z)
           /\ ~YCols /\ ~ZCols => Len(h) = 8 /\ ConeKLines = <<>>

\* Scenario C: Y with two columns beside a Z with zero columns
C6_Witness ==
    /\ pc = "done"
    /\ ~vlp.Y.none /\ vlp.Y.shape[2] = 2
    /\ ~vlp.Z.none /\ vlp.Z.shape[2] = 0
    /\ SubSeq(fs.text[1].tok, 9, 11) = <<"cone", "2", "2">>
    /\ Len(ConeKLines) = 2

\* C7 (as claimed): a model in which Y and Z both have columns is rejected and
\* nothing is encoded from it.
C7_ConeExclusive == YCols /\ ZCols => ~fopen /\ ~HeaderWritten /\ pc # "done"

\* C8: a supplied c that is not of rank 1 and length q makes to_file fail with
\* the dimension error and no duality line; a supplied c of length q gives the
\* q lines `k <i+1> 0 <c[i]>` for i = 0..q-1 in this order; without c there is
\* no such line.
GoodC == vlp.c.rank = 1 /\ Len(vlp.c.v) = vlp.P.shape[1]
DualityLines == [t \in 1..Len(vlp.c.v) |-> <<"k", ToString(t), "0", fmtOf(vlp.c, vlp.c.v[t])>>]
C8_DualityParameter ==
    /\ vlp.c.none => CLines = <<>>
    /\ ~vlp.c.none /\ ~GoodC =>
          /\ CLines = <<>>
          /\ Progress <= 8
          /\ Progress = 8 /\ pc = "failed" =>
                err.type = "RuntimeError" /\ err.msg = "c has wrong dimension"
    /\ ~vlp.c.none /\ GoodC =>
          /\ Progress > 8 => Toks(CLines) = DualityLines
          /\ pc = "c" => Toks(CLines) = SubSeq(DualityLines, 1, loc.it)
          /\ ~(pc = "failed" /\ Progress = 8)

C8_Witness ==
    /\ pc = "done"
    /\ Toks(CLines) = <<<<"k", "1", "0", "1">>, <<"k", "2", "0", "0">>>>

\* Scenario D: c longer than the number of objectives
C8_WitnessWrong ==
    /\ pc = "failed"
    /\ err.msg = "c has wrong dimension"
    /\ Len(vlp.c.v) = 3 /\ vlp.c.rank = 1
    /\ vlp.P.shape[1] = 2

\* C9: a model whose B and P differ in their column counts is rejected on
\* both paths, by to_file (called with a filename) with the column error and
\* by from_arrays with a ValueError, and nothing is encoded from it: no file is opened or written,
\* the in-memory problem stays unfilled.
C9_ColumnMismatchRejected ==
    ~vlp.B.none /\ ~vlp.P.none /\ vlp.B.shape[2] # vlp.P.shape[2] =>
       /\ pc \in {"start", "checkB", "failed", "mem_failed"}
       /\ pc = "failed" /\ ~filename.none =>
             err.type = "RuntimeError" /\ err.msg = "B and P must have same number of columns"
       /\ pc = "mem_failed" => merr.type = "ValueError"
       /\ prob = NoProb
       /\ fs \in InitFiles
       /\ ~fopen

C9_Witness ==
    /\ pc = "failed"
    /\ err.msg = "B and P must have same number of columns"
    /\ vlp.B.shape = <<1, 1>> /\ vlp.P.shape = <<1, 2>>

C9_WitnessMemory ==
    /\ pc = "mem_failed"
    /\ merr.type = "ValueError"
    /\ vlp.B.shape[2] # vlp.P.shape[2]

\* C10: given a filename, to_file fails with the missing-matrix error of B
\* when B is absent and with that of P when only P is absent; without a
\* filename it fails with the no-filename error; in each case the file is
\* neither opened nor written.
OnTextPath == pc \notin {"start", "mem_done", "mem_failed"}
C10_MissingInputs ==
    /\ filename.none /\ OnTextPath =>
          pc = "failed" /\ err = Raise("RuntimeError", "No filename given", 32)
    /\ ~filename.none /\ vlp.B.none /\ OnTextPath /\ pc # "checkB" =>
          pc = "failed" /\ err = Raise("RuntimeError", "Coefficient Matrix B must be given", 40)
    /\ ~filename.none /\ ~vlp.B.none /\ vlp.P.none /\ OnTextPath /\ pc # "checkB" =>
          pc = "failed" /\ err = Raise("RuntimeError", "Coefficient Matrix P must be given", 42)
    /\ filename.none \/ vlp.B.none \/ vlp.P.none => fs \in InitFiles /\ ~fopen

C10_Witness ==
    /\ pc = "failed"
    /\ vlp.B.none /\ vlp.P.none
    /\ err.msg = "Coefficient Matrix B must be given"
    /\ fs = [exists |-> FALSE, text |-> <<>>]

C10_WitnessNoFilename ==
    /\ pc = "failed"
    /\ filename.none
    /\ err.msg = "No filename given"

\* C11: a direction is accepted only when it is 1 or -1.  With any other
\* supplied value to_file never gets past the direction test, it fails there
\* with the invalid-direction error once the checks before it have passed,
\* and the file is neither opened nor written.
InvalidDirectionError(e) == e = Raise("RuntimeError", "Invalid value for opt_dir", 74)
C11_DirectionValidity ==
    /\ ~vlp.opt_dir.none /\ vlp.opt_dir.v \notin {1, -1} /\ OnTextPath =>
          /\ Progress <= 2
          /\ Progress = 2 => pc = "direction" \/ InvalidDirectionError(err)
          /\ fs \in InitFiles
          /\ ~fopen
    /\ Progress > 2 => ~vlp.opt_dir.none /\ vlp.opt_dir.v \in {1, -1}
    /\ pc = "failed" /\ err.line = 74 =>
          ~vlp.opt_dir.none /\ vlp.opt_dir.v \notin {1, -1} /\ InvalidDirectionError(err)

C11_Witness ==
    /\ pc = "failed"
    /\ InvalidDirectionError(err)
    /\ vlp.opt_dir = Dir(2)
    /\ ~vlp.B.none /\ ~vlp.P.none
    /\ fs = [exists |-> FALSE, text |-> <<>>]

C11_WitnessAccepted ==
    /\ pc = "done"
    /\ vlp.opt_dir = Dir(-1)
    /\ fs.text[1].tok[3] = "max"

\* C12 (as claimed): every validation failure is raised before any output.
\* Whenever to_file has failed with one of its validation errors (missing
\* matrix, column mismatch, dimension of c, rank of a or b, invalid bound
\* pair, invalid direction), the file holds no header and no body line: it
\* is as it was before the call.
ValidationError(e) == e.type = "RuntimeError" /\ e.msg # "No filename given"
C12_ValidateBeforeOutput ==
    pc = "failed" /\ ValidationError(err) => ~HeaderWritten /\ fs \in InitFiles

\* C13 (as claimed): once to_file has opened the file, the file is closed when
\* to_file is left, by its return or by any exception.
C13_SinkClosedOnExit == pc \in {"done", "failed"} => ~fopen

\* C14: the text of a successful to_file is the `p` header, then the `a`
\* lines, the `o` lines, the cone `k` lines, the duality `k` lines, the `i`
\* lines with the indices 1, 2, ... in this order, the `j` lines likewise, and
\* last the single token `e`; every write before the last ends its line.  The
\* order holds of the text written so far in every state of a call.
DirectiveRank(w) ==
    CASE w.tok[1] = "p" -> 0
      [] w.tok[1] = "a" -> 1
      [] w.tok[1] = "o" -> 2
      [] w.tok[1] = "k" /\ w.tok[3] # "0" -> 3
      [] w.tok[1] = "k" /\ w.tok[3] = "0" -> 4
      [] w.tok[1] = "i" -> 5
      [] w.tok[1] = "j" -> 6
      [] w.tok[1] = "e" -> 7
      [] OTHER -> -1
Ascending(lines) == \A x \in 1..Len(lines) : lines[x].tok[2] = ToString(x)
C14_DirectiveOrder ==
    /\ HeaderWritten =>
          /\ \A x \in 1..(Len(fs.text) - 1) :
                /\ DirectiveRank(fs.text[x]) <= DirectiveRank(fs.text[x + 1])
                /\ fs.text[x].end \in {NL, " \n"}
          /\ \A x \in 2..Len(fs.text) : DirectiveRank(fs.text[x]) >= 1
          /\ Ascending(RowLines)
          /\ Ascending(ColLines)
          /\ Len(Lines("e")) > 0 => pc = "done"
    /\ pc = "done" =>
          /\ HeaderWritten
          /\ fs.text[Len(fs.text)].tok = <<"e">>
          /\ Len(Lines("e")) = 1

C14_Witness ==
    /\ pc = "done"
    /\ [x \in 1..Len(fs.text) |-> DirectiveRank(fs.text[x])]
          = <<0, 1, 1, 2, 2, 3, 3, 4, 4, 5, 5, 6, 6, 7>>
    /\ Toks(RowLines) = <<<<"i", "1", "d", "0", "1">>, <<"i", "2", "u", "1">>>>

\* C15 (as claimed): the two encoders agree on every valid model.  to_file,
\* given a filename, does not fail on it (unless the open is refused), and its
\* finished text
\* carries, for every row 1..m and column 1..n, the letter that classifies the
\* pair (lower[i], upper[i]) of the in-memory encoding, the counts m, n, k, q,
\* k1, k2 and the direction of the in-memory encoding, and each in-memory
\* triplet with both indices shifted by one.
GivenLen(x, len) == x.none \/ (x.rank = 1 /\ Len(x.v) = len)
ValidModel(v) ==
    /\ ~v.B.none /\ ~v.P.none /\ SameColumns(v.B, v.P)
    /\ v.c.none \/ CDimensionOk(v.c, v.P.shape[1])
    /\ GivenLen(v.a, v.B.shape[1]) /\ GivenLen(v.b, v.B.shape[1])
    /\ GivenLen(v.l, v.B.shape[2]) /\ GivenLen(v.s, v.B.shape[2])
    /\ \A t \in 1..v.B.shape[1] : ValidPair(MemoryEncode(v).rowlo[t], MemoryEncode(v).rowhi[t])
    /\ \A t \in 1..v.B.shape[2] : ValidPair(MemoryEncode(v).collo[t], MemoryEncode(v).colhi[t])
    /\ ~((~v.Y.none /\ v.Y.shape[2] > 0) /\ (~v.Z.none /\ v.Z.shape[2] > 0))
    /\ v.opt_dir.none \/ v.opt_dir.v \in {1, -1}
\* the case tag of BoundSpec.classify, as the letter of the text format
Tag(lo, hi) ==
    IF lo = hi /\ isfinite(lo) THEN "s"
    ELSE CASE Code(lo, hi) = 0 -> "f" [] Code(lo, hi) = 1 -> "u"
           [] Code(lo, hi) = 2 -> "l" [] Code(lo, hi) = 3 -> "d"
ShiftedTriplets(d, T, M) ==
    [t \in 1..Len(T) |-> <<d, ToString(T[t][1] + 1), ToString(T[t][2] + 1), fmtOf(M, T[t][3])>>]
C15_EncodersAgree ==
    ValidModel(vlp) /\ ~filename.none /\ OnTextPath =>
       LET e == MemoryEncode(vlp)
           h == fs.text[1].tok
       IN  /\ pc = "failed" => err.type = "OSError"
           /\ pc = "done" =>
                 /\ Len(RowLines) = e.m
                 /\ \A t \in 1..e.m : RowLines[t].tok[3] = Tag(e.rowlo[t], e.rowhi[t])
                 /\ Len(ColLines) = e.n
                 /\ \A t \in 1..e.n : ColLines[t].tok[3] = Tag(e.collo[t], e.colhi[t])
                 /\ h[3] = (IF e.optdir = 1 THEN "min" ELSE "max")
                 /\ h[4] = ToString(e.m) /\ h[5] = ToString(e.n) /\ h[6] = ToString(e.nz)
                 /\ h[7] = ToString(e.q) /\ h[8] = ToString(e.nzobj)
                 /\ Len(h) = 11 => h[11] = ToString(Len(e.K))
                 /\ Len(h) = 8 => e.K = <<>>
                 /\ Toks(ALines) = ShiftedTriplets("a", e.A, vlp.B)
                 /\ Toks(OLines) = ShiftedTriplets("o", e.Pt, vlp.P)
                 /\ Toks(ConeKLines) = ShiftedTriplets("k", e.K, Generator)

\* C16 (as claimed): Scenario A encodes to the header `p vlp min 2 2 4 2 4`,
\* the row lines `i 1 u 4`, `i 2 u 4` and the column lines `j 1 l 0`, `j 2 l 0`.
ScenarioARowsClaimed == <<<<"i", "1", "u", "4">>, <<"i", "2", "u", "4">>>>
ScenarioAColsClaimed == <<<<"j", "1", "l", "0">>, <<"j", "2", "l", "0">>>>
C16_ScenarioA_Claimed ==
    vlp = ScenarioA /\ pc = "done" =>
       /\ fs.text[1].tok = <<"p", "vlp", "min", "2", "2", "4", "2", "4">>
       /\ Toks(RowLines) = ScenarioARowsClaimed
       /\ Toks(ColLines) = ScenarioAColsClaimed

\* C16 (amended): Scenario A encodes to the header `p vlp min 2 2 4 2 2` (the
\* identity P has two entries that are not zero, so k1 = 2); its arrays hold
\* floats, which are written as such: the `a` lines `a 1 1 2.0`, `a 1 2 1.0`,
\* `a 2 1 1.0`, `a 2 2 2.0` (the two in the middle exchanged when the
\* coordinate store sorts by columns), the `o` lines `o 1 1 1.0`, `o 2 2 1.0`,
\* the row lines `i 1 u 4.0`, `i 2 u 4.0` and the column lines `j 1 l 0.0`,
\* `j 2 l 0.0`; to_file fails on it only when the open is refused.
ScenarioARows == <<<<"i", "1", "u", "4.0">>, <<"i", "2", "u", "4.0">>>>
ScenarioACols == <<<<"j", "1", "l", "0.0">>, <<"j", "2", "l", "0.0">>>>
ScenarioAEntries ==
    IF coo_order = "row"
      THEN <<<<"a", "1", "1", "2.0">>, <<"a", "1", "2", "1.0">>, <<"a", "2", "1", "1.0">>,
             <<"a", "2", "2", "2.0">>, <<"o", "1", "1", "1.0">>, <<"o", "2", "2", "1.0">>>>
      ELSE <<<<"a", "1", "1", "2.0">>, <<"a", "2", "1", "1.0">>, <<"a", "1", "2", "1.0">>,
             <<"a", "2", "2", "2.0">>, <<"o", "1", "1", "1.0">>, <<"o", "2", "2", "1.0">>>>
C16_ScenarioA ==
    vlp = ScenarioA /\ OnTextPath =>
       /\ pc = "failed" => err.type = "OSError"
       /\ HeaderWritten =>
             fs.text[1].tok = <<"p", "vlp", "min", "2", "2", "4", "2", "2">>
       /\ pc = "done" =>
             /\ HeaderWritten
             /\ Toks(ALines) \o Toks(OLines) = ScenarioAEntries
             /\ Toks(RowLines) = ScenarioARows
             /\ Toks(ColLines) = ScenarioACols

C16_Witness ==
    /\ vlp = ScenarioA
    /\ pc = "done"
    /\ fs.text[1].tok = <<"p", "vlp", "min", "2", "2", "4", "2", "2">>
    /\ Toks(ALines) \o Toks(OLines) = ScenarioAEntries
    /\ Toks(RowLines) = ScenarioARows
    /\ Toks(ColLines) = ScenarioACols

\* C17 (as claimed): Scenario B (a = [0,0,1], b = [1,1,2], three rows) encodes
\* row 1 as `i 1 d 0 1` and row 3 as `i 3 l 1`.
IsScenarioB == vlp.B = ScenarioB.B /\ vlp.a = ScenarioB.a /\ vlp.b = ScenarioB.b
C17_ScenarioB_Claimed ==
    IsScenarioB /\ pc = "done" =>
       /\ Len(RowLines) = 3
       /\ RowLines[1].tok = <<"i", "1", "d", "0", "1">>
       /\ RowLines[3].tok = <<"i", "3", "l", "1">>

\* C17 (amended): Scenario B encodes row 1 as `i 1 d 0 1`, row 2 likewise as
\* `i 2 d 0 1`, and row 3, whose two bounds 1 and 2 are finite, as `i 3 d 1 2`;
\* to_file fails on it only when the open is refused.
C17_ScenarioB ==
    IsScenarioB /\ OnTextPath =>
       /\ pc = "failed" => err.type = "OSError"
       /\ Len(RowLines) >= 1 => RowLines[1].tok = <<"i", "1", "d", "0", "1">>
       /\ Len(RowLines) >= 3 => RowLines[3].tok = <<"i", "3", "d", "1", "2">>
       /\ pc = "done" =>
             Toks(RowLines) = <<<<"i", "1", "d", "0", "1">>, <<"i", "2", "d", "0", "1">>,
                                <<"i", "3", "d", "1", "2">>>>

C17_Witness ==
    /\ IsScenarioB
    /\ pc = "done"
    /\ Len(RowLines) = 3
    /\ RowLines[1].tok = <<"i", "1", "d", "0", "1">>
    /\ RowLines[3].tok = <<"i", "3", "d", "1", "2">>

\* C18: while every thread calls the solver only inside the
\* shared lock, at most one solver invocation is in flight at any moment, on
\* the text path as on the in-memory path, and it is the lock holder's; once
\* the main thread has joined all threads, each thread has recorded exactly
\* one result.
C18_SolverSerialized ==
    /\ Cardinality(inflight) <= 1
    /\ \A c \in inflight : lock = c.thread
    /\ main.pc = "joined" =>
          /\ Len(results) = NumThreads
          /\ \A t \in 1..NumThreads :
                Cardinality({x \in 1..Len(results) : results[x] = t}) = 1
          /\ inflight = {}
          /\ lock = 0

\* three threads have recorded, the last started being the first to solve
C18_Witness ==
    /\ main.pc = "joined"
    /\ test = "example"
    /\ results = <<3, 1, 2>>

\* a thread waits for the lock while another one is inside the solver
C18_WitnessWaiting ==
    /\ test = "unit"
    /\ inflight = {[thread |-> 2, path |-> "memory"]}
    /\ threads[1] = "ready"

\* C20 (as claimed): validation fails fast in the order (1) matrices present,
\* (2) column counts of B and P, (3) length of c, (4) row-bound vectors,
\* (5) column-bound vectors, (6) bound pairs, (7) cone, (8) direction: when
\* to_file, given a filename, raises a validation error, the error is the one
\* of the first rule in this order that the model breaks.
BrokenRules(v) ==
    IF v.B.none \/ v.P.none THEN {1}
    ELSE LET m == v.B.shape[1]
             n == v.B.shape[2]
             e == MemoryEncode(v)
         IN  {2 : x \in {w \in {v} : ~SameColumns(w.B, w.P)}}
             \cup {3 : x \in {w \in {v} : ~w.c.none /\ ~CDimensionOk(w.c, w.P.shape[1])}}
             \cup {4 : x \in {w \in {v} : ~GivenLen(w.a, m) \/ ~GivenLen(w.b, m)}}
             \cup {5 : x \in {w \in {v} : ~GivenLen(w.l, n) \/ ~GivenLen(w.s, n)}}
             \cup {6 : x \in {w \in {v} :
                        \/ \E t \in 1..m : t <= Len(e.rowlo) /\ t <= Len(e.rowhi)
                                              /\ ~ValidPair(e.rowlo[t], e.rowhi[t])
                        \/ \E t \in 1..n : t <= Len(e.collo) /\ t <= Len(e.colhi)
                                              /\ ~ValidPair(e.collo[t], e.colhi[t])}}
             \cup {7 : x \in {w \in {v} : (~w.Y.none /\ w.Y.shape[2] > 0)
                                              /\ (~w.Z.none /\ w.Z.shape[2] > 0)}}
             \cup {8 : x \in {w \in {v} : ~w.opt_dir.none /\ w.opt_dir.v \notin {1, -1}}}
FirstBroken(v) == CHOOSE r \in BrokenRules(v) : \A x \in BrokenRules(v) : r <= x
\* the rule whose error line n of to_file reports
RuleOfLine(n) ==
    CASE n \in {40, 42} -> 1 [] n = 50 -> 2 [] n = 98 -> 3 [] n \in {104, 106, 118} -> 4
      [] n = 148 -> 5 [] n \in {133, 163, 164} -> 6 [] n = 74 -> 8 [] OTHER -> 0
C20_ValidationOrder ==
    pc = "failed" /\ RuleOfLine(err.line) # 0 =>
       /\ BrokenRules(vlp) # {}
       /\ RuleOfLine(err.line) = FirstBroken(vlp)

\* C21 (as claimed): a model whose generator in use (Y, or else Z) has a row
\* count other than q, the rows of P, is rejected: to_file neither opens nor
\* writes the file and does not return; and no cone `k` line carries a row
\* index above q.
GeneratorRowsOk == Generator.none \/ Generator.shape[1] = vlp.P.shape[1]
KLineRowsWithin(q) ==
    \A t \in 1..Len(ConeKLines) :
        \E r \in 1..q : ConeKLines[t].tok[2] = ToString(r)
C21_GeneratorRows ==
    ~vlp.B.none /\ ~vlp.P.none =>
       /\ ~GeneratorRowsOk => ~fopen /\ ~HeaderWritten /\ pc # "done"
       /\ KLineRowsWithin(vlp.P.shape[1])

\* C22 (as claimed): when a or b is absent (the other absent too, or a vector
\* of rank 1 with one entry per row of B), a finished encoding has one row
\* line for every row 1..m, the absent a read as -inf and the absent b as
\* +inf; with both absent every row line is `i <row> f`.
C22_AbsentRowBoundsFree ==
    /\ pc = "done"
    /\ vlp.a.none \/ vlp.b.none
    /\ GivenLen(vlp.a, vlp.B.shape[1])
    /\ GivenLen(vlp.b, vlp.B.shape[1])
    => Toks(RowLines) =
          [t \in 1..vlp.B.shape[1] |->
              RowTokens(LetterLine("i", t, RowLo(t), RowHi(t)), RowLo(t), RowHi(t))]

\* C23 (as claimed): a row-bound vector of rank above 1 is rejected with a
\* dimension error, and so is a row-bound vector of rank 1 whose length is not
\* the number of rows of B: the row loop writes no line for such a model, the
\* encoding does not finish, and the error raised once the rows are reached is
\* the dimension error, not an index read out of range.
WrongRowLength(x) == ~x.none /\ x.rank = 1 /\ Len(x.v) # vlp.B.shape[1]
DimensionError(e) ==
    e.type = "RuntimeError" /\ e.msg \in {"a has wrong dimension", "b has wrong dimension"}
C23_RowVectorShape ==
    ~vlp.B.none /\ ~vlp.P.none =>
       /\ vlp.a.rank > 1 \/ vlp.b.rank > 1 =>
             /\ Progress <= 9
             /\ pc = "failed" /\ Progress = 9 => DimensionError(err)
       /\ WrongRowLength(vlp.a) \/ WrongRowLength(vlp.b) =>
             /\ RowLines = <<>>
             /\ pc # "done"
             /\ pc = "failed" /\ Progress >= 9 => DimensionError(err)

\* C24 (as claimed): an absent l is read as -inf and an absent s as +inf for
\* every column; an l or s whose length is not the number n of columns is
\* rejected with a dimension error (no column line is written, the encoding
\* does not finish); a finished encoding has exactly n column lines, one for
\* each column 1..n.
WrongColLength(x) == ~x.none /\ Len(x.v) # vlp.B.shape[2]
C24_ColumnBounds ==
    ~vlp.B.none /\ ~vlp.P.none =>
       /\ pc = "done" =>
             /\ Len(ColLines) = vlp.B.shape[2]
             /\ Ascending(ColLines)
             /\ ~WrongColLength(vlp.l) /\ ~WrongColLength(vlp.s) =>
                   \A t \in 1..vlp.B.shape[2] :
                       ColLines[t].tok = ColTokens(LetterLine("j", t, ColLo(t), ColHi(t)),
                                                   ColLo(t), ColHi(t))
       /\ WrongColLength(vlp.l) \/ WrongColLength(vlp.s) =>
             /\ ColLines = <<>>
             /\ pc # "done"
             /\ pc = "failed" /\ Progress = 11 => err.type = "RuntimeError"

\* C25 (as claimed): once the triplets are extracted, the sequence taken from
\* B (from P, from the generator in use) holds exactly one triplet
\* <<row, col, value>> for every entry the sparse store of that matrix holds,
\* a stored zero included, and k (k1, k2) is the length of that sequence; the
\* sequences are those a second extraction of the same matrices yields.
StoredOnce(T, M) ==
    /\ Len(T) = Cardinality(lil_matrix(M))
    /\ \A x \in lil_matrix(M) :
          Cardinality({t \in 1..Len(T) : T[t] = <<x[1], x[2], M.data[x]>>}) = 1
C25_TripletPerStoredEntry ==
    Progress >= 2 =>
       /\ StoredOnce(loc.A, vlp.B) /\ loc.k = Len(loc.A)
       /\ StoredOnce(loc.Pt, vlp.P) /\ loc.k1 = Len(loc.Pt)
       /\ ~Generator.none => StoredOnce(loc.K, Generator)
       /\ loc.k2 = Len(loc.K)
       /\ loc.A = find(vlp.B) /\ loc.Pt = find(vlp.P)
       /\ loc.K = ConeClause(vlp.Y, vlp.Z).K

\* C26 (as claimed): no step of to_file changes the model: every field of the
\* problem (B, P, a, b, l, s, Y, Z, c, opt_dir) keeps its value from the call
\* to the return or the failure.
C26_ModelUnchanged == [][to_file => vlp' = vlp]_vars

\* C27: a problem whose opt_dir is left unset is encoded as a minimization.
\* The first statements of to_file replace the unset direction by 1 and go on
\* to the checks; from there on the direction is set, a direction of 1 never
\* raises the invalid-direction error, and every header written for it reads
\* `min`, as for a problem constructed with opt_dir = 1.
DirectionSetToMin ==
    OnTextPath /\ ~filename.none =>
       /\ ~vlp.opt_dir.none
       /\ vlp.opt_dir = Dir(1) =>
             /\ ~(pc = "failed" /\ err.line = 74)
             /\ Progress > 2 => loc.opt_dir_str = "min"
             /\ HeaderWritten => fs.text[1].tok[3] = "min"
UnsetDirectionBecomesOne ==
    pc = "start" /\ vlp.opt_dir.none /\ ~filename.none /\ to_file =>
       /\ vlp' = [vlp EXCEPT !.opt_dir = Dir(1)]
       /\ pc' = "checkB"
       /\ UNCHANGED <<fs, fopen, err, loc>>
C27_UnsetDirectionIsMin == []DirectionSetToMin /\ [][UnsetDirectionBecomesOne]_vars

\* Example 02 of the examples, constructed without a direction, is encoded to
\* the end with `min` in its header
C27_Witness ==
    /\ pc = "done"
    /\ IsScenarioB
    /\ vlp.opt_dir = Dir(1)
    /\ SubSeq(fs.text[1].tok, 1, 3) = <<"p", "vlp", "min">>

\* C28: a failure of to_file for a missing filename, a missing B or P,
\* different column counts of B and P, or an invalid direction happens before
\* the file is opened: the file is then neither created nor emptied (it is as
\* it was before the call) and no sink is open.  The file is touched for the
\* first time by the open, after all of these checks.
EarlyFailure == pc = "failed" /\ err.line \in {32, 40, 42, 50, 74}
C28_EarlyFailureLeavesFile ==
    /\ EarlyFailure => fs \in InitFiles /\ ~fopen
    /\ OnTextPath /\ Progress <= 3 /\ ~(pc = "failed" /\ err.line = 78) =>
          fs \in InitFiles /\ ~fopen
    /\ pc = "failed" /\ err.msg \in {"No filename given",
                                     "Coefficient Matrix B must be given",
                                     "Coefficient Matrix P must be given",
                                     "B and P must have same number of columns",
                                     "Invalid value for opt_dir"} => EarlyFailure

\* an invalid direction is refused while the file that was there before the
\* call still holds its previous content
C28_Witness ==
    /\ pc = "failed"
    /\ err = Raise("RuntimeError", "Invalid value for opt_dir", 74)
    /\ fs = [exists |-> TRUE, text |-> OldText]
    /\ ~fopen

\* C29: the file written by to_file holds the `e` directive exactly when
\* to_file has returned normally.  A finished file ends with its only `e`,
\* after every line of every loop (k lines `a`, k1 lines `o`, k2 cone lines, q
\* duality lines when c is given, one line for each row and each column the
\* loops run over); a failure after the file has been opened leaves the header
\* followed by fewer lines than that, none of them `e`.
FullLength ==
    1 + loc.k + loc.k1 + loc.k2 + (IF vlp.c.none THEN 0 ELSE loc.q) + loc.m1 + loc.n + 1
C29_EndMarksCompletion ==
    OnTextPath /\ fs \notin InitFiles =>
       /\ Len(Lines("e")) > 0 <=> pc = "done"
       /\ pc = "done" =>
             /\ Len(fs.text) = FullLength
             /\ fs.text[FullLength].tok = <<"e">>
             /\ \A x \in 1..(FullLength - 1) : fs.text[x].tok[1] # "e"
             /\ Len(ALines) = loc.k /\ Len(OLines) = loc.k1 /\ Len(ConeKLines) = loc.k2
             /\ Len(RowLines) = loc.m1 /\ Len(ColLines) = loc.n
       /\ pc = "failed" =>
             /\ Progress >= 8
             /\ HeaderWritten
             /\ Len(fs.text) < FullLength
             /\ \A x \in 1..Len(fs.text) : DirectiveRank(fs.text[x]) \in 0..6

\* a failure in the column loop, after the header, an `a` and an `o` line
\* have been written: the file stops before `e`
C29_Witness ==
    /\ pc = "failed"
    /\ Progress = 11
    /\ Len(ALines) > 0 /\ Len(OLines) > 0
    /\ Lines("e") = <<>>
    /\ fopen

\* C30 (as claimed): in a finished encoding every index lies within the
\* dimensions m, n, q the header declares: `a` lines have row in 1..m and
\* column in 1..n, `o` lines row in 1..q and column in 1..n, cone `k` lines row
\* in 1..q and column in 1..cols (the column count of the generator in use),
\* duality `k` lines row in 1..q, `i` lines row in 1..m with at most one line
\* for a row, `j` lines column in 1..n with exactly one line for each column.
Within(s, n) == \E r \in 1..n : s = ToString(r)
AllWithin(lines, rows, cols) ==
    \A t \in 1..Len(lines) :
        Within(lines[t].tok[2], rows) /\ (cols >= 0 => Within(lines[t].tok[3], cols))
LinesOf(lines, n) == Cardinality({t \in 1..Len(lines) : lines[t].tok[2] = ToString(n)})
C30_IndicesWithinHeader ==
    pc = "done" =>
       /\ SubSeq(fs.text[1].tok, 4, 5) = <<ToString(loc.m), ToString(loc.n)>>
       /\ fs.text[1].tok[7] = ToString(loc.q)
       /\ AllWithin(ALines, loc.m, loc.n)
       /\ AllWithin(OLines, loc.q, loc.n)
       /\ AllWithin(ConeKLines, loc.q, Generator.shape[2])
       /\ AllWithin(CLines, loc.q, -1)
       /\ AllWithin(RowLines, loc.m, -1)
       /\ \A r \in 1..loc.m : LinesOf(RowLines, r) <= 1
       /\ AllWithin(ColLines, loc.n, -1)
       /\ \A c \in 1..loc.n : LinesOf(ColLines, c) = 1
====
